---- MODULE Spec2Model ----
(***************************************************************************)
(* Model of tensorflow_datasets/core/features/text_feature.py: the Text    *)
(* FeatureConnector, its encoder slot, its encoder config, and the         *)
(* metadata files its encoder writes and reads.                            *)
(*                                                                         *)
(* Python values are modelled as follows.                                  *)
(*   - a string is a sequence of one-character strings;                    *)
(*   - a text is a sequence of Unicode code points;                        *)
(*   - an encoder object is a record [id, cls, vocab_size]; the Python     *)
(*     value None in an encoder position is the record None, whose class   *)
(*     is "NoneType";                                                      *)
(*   - a class is named by a string; "None" in a class position is the     *)
(*     Python value None;                                                  *)
(*   - a TextEncoderConfig is a record [isNone, encoder, encoder_cls,      *)
(*     vocab_size]; NoneConfig is the Python value None in that position;  *)
(*   - vocab_size 0 stands for a vocab_size of None.                       *)
(***************************************************************************)
EXTENDS Integers, Sequences, FiniteSets, TLC

VARIABLES
  alive,                \* TRUE once a Text instance exists
  self_encoder,         \* self._encoder
  self_encoder_config,  \* self._encoder_config
  call,                 \* the last operation called and its arguments
  raised,               \* the error the last operation raised, "" if none
  ret,                  \* the value the last operation returned
  calls,                \* the collaborator routines the last operation invoked
  fs,                   \* the files on disk
  ncalls,               \* number of operations called so far
  bound_by,             \* history: the operation that filled the slot, "" if empty
  inst,                 \* history: number of instances made so far
  made                  \* history: the arguments the instance was constructed with

vars == <<alive, self_encoder, self_encoder_config, call, raised, ret, calls, fs,
          ncalls, bound_by, inst, made>>

----------------------------------------------------------------------------
(* Bounds *)

MaxCalls == 4          \* operations per behaviour
MaxVocab == 3          \* vocab sizes range over 2..MaxVocab

----------------------------------------------------------------------------
(* Values *)

None == [id |-> 0, cls |-> "NoneType", vocab_size |-> 0]

SubwordTextEncoder == "SubwordTextEncoder"

\* text_lib's encoder classes, and one class a caller derives from
\* SubwordTextEncoder.
Classes == {"ByteTextEncoder", SubwordTextEncoder, "SubSubwordTextEncoder"}

VocabSizes == 2..MaxVocab

\* the encoder objects a caller makes: one per class and vocab size, all
\* with id 1
UserEncoders ==
  {[id |-> 1, cls |-> c, vocab_size |-> v] : c \in Classes, v \in VocabSizes}

\* the id of an encoder object created by a collaborator during call n
FreshId(n) == 1 + n

NoneConfig == [isNone |-> TRUE, encoder |-> None, encoder_cls |-> "None", vocab_size |-> 0]

TextEncoderConfig(encoder, encoder_cls, vocab_size) ==
  [isNone |-> FALSE, encoder |-> encoder, encoder_cls |-> encoder_cls,
   vocab_size |-> vocab_size]

\* the configs a caller can pass: a class with a vocab size, a config that
\* names no class, or a config made from a pre-built encoder
UserConfigs ==
  {TextEncoderConfig(None, c, v) : c \in Classes, v \in VocabSizes}
  \cup {TextEncoderConfig(None, "None", 0)}
  \cup {TextEncoderConfig(e, e.cls, e.vocab_size) : e \in UserEncoders}

DataDirs == {<<"d">>, <<"d", "/">>}
FeatureNames == {<<"f">>, <<"g">>}
Texts == {<<97>>, <<233, 97>>}
Corpora == {<<"c">>}

\* files that may be on disk before the program runs
InitialFiles ==
  {[path |-> <<"d", "/", "f", ".", "t", "e", "x", "t", ".", "x">>, vocab_size |-> 2]}

NoCall == [op |-> "", encoder |-> None, encoder_config |-> NoneConfig,
           data_dir |-> <<>>, feature_name |-> <<>>, data |-> <<>>]

NoMade == [encoder |-> None, encoder_config |-> NoneConfig]

NoRet == [kind |-> "None", seq |-> <<>>, shape |-> "", dtype |-> ""]

TensorInfo(shape, dtype) == [kind |-> "TensorInfo", seq |-> <<>>, shape |-> shape, dtype |-> dtype]

Ints(s) == [kind |-> "ints", seq |-> s, shape |-> "", dtype |-> ""]
Bytes(s) == [kind |-> "bytes", seq |-> s, shape |-> "", dtype |-> ""]
Str(s) == [kind |-> "str", seq |-> s, shape |-> "", dtype |-> ""]

\* stored values: an integer sequence, and the byte strings encode_example
\* makes of the texts above when no encoder is bound
StoredValues == {Ints(<<1, 2>>), Bytes(<<97>>), Bytes(<<195, 169, 97>>)}
IntValues == {<<1, 2>>}

\* a record of one collaborator invocation
Invoke(fn, obj, str, num) == [fn |-> fn, obj |-> obj, str |-> str, num |-> num]

----------------------------------------------------------------------------
(* Python and library primitives *)

\* bool(x) of an encoder position: None is false, an object is true
Truthy(x) == x # None

type(x) == x.cls

Mro(c) ==
  IF c = "SubSubwordTextEncoder"
    THEN {"SubSubwordTextEncoder", SubwordTextEncoder, "TextEncoder", "object"}
  ELSE IF c = "NoneType" THEN {"NoneType", "object"}
  ELSE {c, "TextEncoder", "object"}

\* isinstance(x, cls) for cls a class
isinstance(x, cls) == cls \in Mro(type(x))

startswith(f, p) == Len(p) <= Len(f) /\ SubSeq(f, 1, Len(p)) = p

os_path_join(a, b) ==
  IF b # <<>> /\ b[1] = "/" THEN b
  ELSE IF a = <<>> \/ a[Len(a)] = "/" THEN a \o b
  ELSE a \o <<"/">> \o b

DotText == <<".", "t", "e", "x", "t">>

\* "%s.text" % feature_name
fname_of(feature_name) == feature_name \o DotText

LastSlash(p) ==
  IF \E i \in 1..Len(p) : p[i] = "/"
    THEN CHOOSE i \in 1..Len(p) : p[i] = "/" /\ \A j \in (i+1)..Len(p) : p[j] # "/"
    ELSE 0

DirOf(p) == SubSeq(p, 1, LastSlash(p) - 1)
BaseOf(p) == SubSeq(p, LastSlash(p) + 1, Len(p))
StripSlash(d) == IF Len(d) > 1 /\ d[Len(d)] = "/" THEN SubSeq(d, 1, Len(d) - 1) ELSE d

\* tf.gfile.ListDirectory(data_dir): the bare names of the entries of data_dir
ListDirectory(fsys, data_dir) ==
  {BaseOf(f.path) : f \in {g \in fsys : DirOf(g.path) = StripSlash(data_dir)}}

\* UTF-8 encoding of one code point below 2^16
Utf8(cp) ==
  IF cp < 128 THEN <<cp>>
  ELSE IF cp < 2048 THEN <<192 + (cp \div 64), 128 + (cp % 64)>>
  ELSE <<224 + (cp \div 4096), 128 + ((cp \div 64) % 64), 128 + (cp % 64)>>

RECURSIVE as_bytes(_)
as_bytes(text) ==
  IF text = <<>> THEN <<>> ELSE Utf8(Head(text)) \o as_bytes(Tail(text))

----------------------------------------------------------------------------
(* The Encoder collaborator (text_lib) *)

\* encoder.encode(text): one id in 1..vocab_size per code point
encode(e, text) == [i \in 1..Len(text) |-> (text[i] % e.vocab_size) + 1]

\* encoder.decode(ints): one code point per id
decode(e, ints) == [i \in 1..Len(ints) |-> 96 + ints[i]]

SaveSuffix == <<".", "v">>

\* encoder.save_to_file(prefix): writes the encoder's vocabulary to a file
\* whose name begins with prefix
save_to_file(fsys, e, prefix) ==
  {f \in fsys : f.path # prefix \o SaveSuffix}
    \cup {[path |-> prefix \o SaveSuffix, vocab_size |-> e.vocab_size]}

CanLoad(fsys, prefix) == \E f \in fsys : f.path = prefix \o SaveSuffix

\* encoder_cls.load_from_file(prefix): a new encoder of that class with the
\* saved vocabulary
load_from_file(fsys, encoder_cls, prefix, id) ==
  LET f == CHOOSE g \in fsys : g.path = prefix \o SaveSuffix
  IN [id |-> id, cls |-> encoder_cls, vocab_size |-> f.vocab_size]

----------------------------------------------------------------------------
(* The methods of Text, as functions of the instance's fields and the       *)
(* arguments.                                                              *)

\* Text._encoder_cls: self._encoder_config and self._encoder_config.encoder_cls
encoder_cls_of(cfg) == IF cfg.isNone THEN "None" ELSE cfg.encoder_cls

\* __init__ without the check for both arguments: the encoder wins
Text_init_NoDualCheck(encoder, encoder_config) ==
  IF Truthy(encoder)
    THEN [raised |-> "", encoder |-> encoder,
          encoder_config |-> TextEncoderConfig(None, type(encoder), encoder.vocab_size)]
  ELSE IF ~encoder_config.isNone
    THEN [raised |-> "", encoder |-> encoder_config.encoder,
          encoder_config |-> encoder_config]
  ELSE [raised |-> "", encoder |-> encoder, encoder_config |-> encoder_config]

\* __init__ that derives no config from a supplied encoder
Text_init_NoDerivedConfig(encoder, encoder_config) ==
  IF Truthy(encoder) /\ ~encoder_config.isNone
    THEN [raised |-> "DualEncoderSpecification", encoder |-> None,
          encoder_config |-> NoneConfig]
  ELSE IF ~encoder_config.isNone
    THEN [raised |-> "", encoder |-> encoder_config.encoder,
          encoder_config |-> encoder_config]
  ELSE [raised |-> "", encoder |-> encoder, encoder_config |-> encoder_config]

\* __init__ that does not take the encoder a config carries
Text_init_DropsConfigEncoder(encoder, encoder_config) ==
  IF Truthy(encoder) /\ ~encoder_config.isNone
    THEN [raised |-> "DualEncoderSpecification", encoder |-> None,
          encoder_config |-> NoneConfig]
  ELSE IF Truthy(encoder)
    THEN [raised |-> "", encoder |-> encoder,
          encoder_config |-> TextEncoderConfig(None, type(encoder), encoder.vocab_size)]
  ELSE [raised |-> "", encoder |-> None, encoder_config |-> encoder_config]

\* Text.__init__
Text_init(encoder, encoder_config) ==
  IF Truthy(encoder) /\ ~encoder_config.isNone
    THEN [raised |-> "DualEncoderSpecification", encoder |-> None,
          encoder_config |-> NoneConfig]
  ELSE IF Truthy(encoder)
    THEN [raised |-> "", encoder |-> encoder,
          encoder_config |-> TextEncoderConfig(None, type(encoder), encoder.vocab_size)]
  ELSE IF ~encoder_config.isNone
    THEN [raised |-> "", encoder |-> encoder_config.encoder,
          encoder_config |-> encoder_config]
  ELSE [raised |-> "", encoder |-> encoder, encoder_config |-> encoder_config]

\* a setter without the "Cannot override encoder" check
encoder_setter_Override(enc, cfg, new_encoder) ==
  IF encoder_cls_of(cfg) = "None"
    THEN [encoder |-> new_encoder, encoder_config |-> cfg, raised |-> "TypeError"]
  ELSE IF ~isinstance(new_encoder, encoder_cls_of(cfg))
    THEN [encoder |-> new_encoder, encoder_config |-> cfg, raised |-> "EncoderTypeMismatch"]
  ELSE [encoder |-> new_encoder, encoder_config |-> cfg, raised |-> ""]

\* a setter that assigns the slot before the "Cannot override encoder" check
encoder_setter_LateCheck(enc, cfg, new_encoder) ==
  IF Truthy(enc)
    THEN [encoder |-> new_encoder, encoder_config |-> cfg, raised |-> "EncoderAlreadyBound"]
  ELSE IF encoder_cls_of(cfg) = "None"
    THEN [encoder |-> new_encoder, encoder_config |-> cfg, raised |-> "TypeError"]
  ELSE IF ~isinstance(new_encoder, encoder_cls_of(cfg))
    THEN [encoder |-> new_encoder, encoder_config |-> cfg, raised |-> "EncoderTypeMismatch"]
  ELSE [encoder |-> new_encoder, encoder_config |-> cfg, raised |-> ""]

\* Text.encoder (setter): the slot is assigned before the type is checked
encoder_setter(enc, cfg, new_encoder) ==
  IF Truthy(enc)
    THEN [encoder |-> enc, encoder_config |-> cfg, raised |-> "EncoderAlreadyBound"]
  ELSE IF encoder_cls_of(cfg) = "None"
    \* isinstance(new_encoder, None) raises TypeError
    THEN [encoder |-> new_encoder, encoder_config |-> cfg, raised |-> "TypeError"]
  ELSE IF ~isinstance(new_encoder, encoder_cls_of(cfg))
    THEN [encoder |-> new_encoder, encoder_config |-> cfg, raised |-> "EncoderTypeMismatch"]
  ELSE [encoder |-> new_encoder, encoder_config |-> cfg, raised |-> ""]

\* Text.vocab_size: self.encoder and self.encoder.vocab_size
vocab_size_of(enc) == IF Truthy(enc) THEN enc.vocab_size ELSE 0

\* str2ints without the check of the slot: the delegation fails on None
str2ints_NoCheck(enc, str_value) ==
  IF ~Truthy(enc)
    THEN [raised |-> "AttributeError", ret |-> NoRet,
          calls |-> <<Invoke("encode", enc, str_value, 0)>>]
    ELSE [raised |-> "", ret |-> Ints(encode(enc, str_value)),
          calls |-> <<Invoke("encode", enc, str_value, 0)>>]

\* Text.str2ints
str2ints(enc, str_value) ==
  IF ~Truthy(enc)
    THEN [raised |-> "EncoderNotConfigured", ret |-> NoRet, calls |-> <<>>]
    ELSE [raised |-> "", ret |-> Ints(encode(enc, str_value)),
          calls |-> <<Invoke("encode", enc, str_value, 0)>>]

\* Text.ints2str
ints2str(enc, int_values) ==
  IF ~Truthy(enc)
    THEN [raised |-> "EncoderNotConfigured", ret |-> NoRet, calls |-> <<>>]
    ELSE [raised |-> "", ret |-> Str(decode(enc, int_values)),
          calls |-> <<Invoke("decode", enc, int_values, 0)>>]

\* get_tensor_info answering from the encoder the instance had when it was
\* constructed (a descriptor computed once and kept)
get_tensor_info_Stale(enc) ==
  IF Truthy(Text_init(made.encoder, made.encoder_config).encoder)
    THEN TensorInfo("(None,)", "int64") ELSE TensorInfo("()", "string")

\* Text.get_tensor_info
get_tensor_info(enc) ==
  IF Truthy(enc) THEN TensorInfo("(None,)", "int64") ELSE TensorInfo("()", "string")

\* encode_example that byte-encodes whether or not an encoder is bound
encode_example_AlwaysBytes(enc, example_data) ==
  [ret |-> Bytes(as_bytes(example_data)), calls |-> <<>>]

\* Text.encode_example
encode_example(enc, example_data) ==
  IF Truthy(enc)
    THEN [ret |-> Ints(encode(enc, example_data)),
          calls |-> <<Invoke("encode", enc, example_data, 0)>>]
    ELSE [ret |-> Bytes(as_bytes(example_data)), calls |-> <<>>]

\* decode_example that decodes integer sequences with the bound encoder
decode_example_Decodes(enc, tfexample_data) ==
  IF Truthy(enc) /\ tfexample_data.kind = "ints"
    THEN Str(decode(enc, tfexample_data.seq))
    ELSE tfexample_data

\* Text.decode_example
decode_example(enc, tfexample_data) == tfexample_data

\* save_metadata without the test of the slot
save_metadata_NoCheck(enc, fsys, data_dir, feature_name) ==
  LET fname_prefix == os_path_join(data_dir, fname_of(feature_name))
  IN [fs |-> save_to_file(fsys, enc, fname_prefix),
      calls |-> <<Invoke("save_to_file", enc, fname_prefix, 0)>>]

\* Text.save_metadata
save_metadata(enc, fsys, data_dir, feature_name) ==
  LET fname_prefix == os_path_join(data_dir, fname_of(feature_name))
  IN IF ~Truthy(enc)
       THEN [fs |-> fsys, calls |-> <<>>]
       ELSE [fs |-> save_to_file(fsys, enc, fname_prefix),
             calls |-> <<Invoke("save_to_file", enc, fname_prefix, 0)>>]

\* the class, in the object position of an invocation record
ClassObj(c) == [id |-> 0, cls |-> c, vocab_size |-> 0]

\* the names in a listing of data_dir that start with fname_prefix
feature_files_of(fsys, data_dir, fname_prefix) ==
  {f \in ListDirectory(fsys, data_dir) : startswith(f, fname_prefix)}

\* load_metadata computing its prefix without the ".text" suffix
load_metadata_NoDotText(enc, cfg, fsys, data_dir, feature_name, id) ==
  LET fname_prefix == os_path_join(data_dir, feature_name)
      encoder_cls == encoder_cls_of(cfg)
  IN IF encoder_cls # "None"
       THEN IF CanLoad(fsys, fname_prefix)
              THEN [encoder |-> load_from_file(fsys, encoder_cls, fname_prefix, id),
                    encoder_config |-> cfg, raised |-> "",
                    calls |-> <<Invoke("load_from_file", ClassObj(encoder_cls), fname_prefix, 0)>>]
              ELSE [encoder |-> enc, encoder_config |-> cfg, raised |-> "IOError",
                    calls |-> <<Invoke("load_from_file", ClassObj(encoder_cls), fname_prefix, 0)>>]
     ELSE IF feature_files_of(fsys, data_dir, fname_prefix) # {}
       THEN [encoder |-> enc, encoder_config |-> cfg,
             raised |-> "OrphanedMetadataFiles", calls |-> <<>>]
     ELSE [encoder |-> enc, encoder_config |-> cfg, raised |-> "", calls |-> <<>>]

\* load_metadata that empties the slot before it loads
load_metadata_ClearsFirst(enc, cfg, fsys, data_dir, feature_name, id) ==
  LET fname_prefix == os_path_join(data_dir, fname_of(feature_name))
      encoder_cls == encoder_cls_of(cfg)
  IN IF encoder_cls # "None"
       THEN IF CanLoad(fsys, fname_prefix)
              THEN [encoder |-> load_from_file(fsys, encoder_cls, fname_prefix, id),
                    encoder_config |-> cfg, raised |-> "",
                    calls |-> <<Invoke("load_from_file", ClassObj(encoder_cls), fname_prefix, 0)>>]
              ELSE [encoder |-> None, encoder_config |-> cfg, raised |-> "IOError",
                    calls |-> <<Invoke("load_from_file", ClassObj(encoder_cls), fname_prefix, 0)>>]
     ELSE IF feature_files_of(fsys, data_dir, fname_prefix) # {}
       THEN [encoder |-> enc, encoder_config |-> cfg,
             raised |-> "OrphanedMetadataFiles", calls |-> <<>>]
     ELSE [encoder |-> enc, encoder_config |-> cfg, raised |-> "", calls |-> <<>>]

\* Text.load_metadata; id names the object load_from_file creates
load_metadata(enc, cfg, fsys, data_dir, feature_name, id) ==
  LET fname_prefix == os_path_join(data_dir, fname_of(feature_name))
      encoder_cls == encoder_cls_of(cfg)
  IN IF encoder_cls # "None"
       THEN IF CanLoad(fsys, fname_prefix)
              THEN [encoder |-> load_from_file(fsys, encoder_cls, fname_prefix, id),
                    encoder_config |-> cfg, raised |-> "",
                    calls |-> <<Invoke("load_from_file", ClassObj(encoder_cls), fname_prefix, 0)>>]
              ELSE [encoder |-> enc, encoder_config |-> cfg, raised |-> "IOError",
                    calls |-> <<Invoke("load_from_file", ClassObj(encoder_cls), fname_prefix, 0)>>]
     ELSE IF feature_files_of(fsys, data_dir, fname_prefix) # {}
       THEN [encoder |-> enc, encoder_config |-> cfg,
             raised |-> "OrphanedMetadataFiles", calls |-> <<>>]
     ELSE [encoder |-> enc, encoder_config |-> cfg, raised |-> "", calls |-> <<>>]

\* maybe_build_from_corpus assigning self._encoder directly
maybe_build_from_corpus_Direct(enc, cfg, corpus_generator, built) ==
  IF encoder_cls_of(cfg) # SubwordTextEncoder
    THEN [encoder |-> enc, encoder_config |-> cfg, raised |-> "", calls |-> <<>>]
    ELSE [encoder |-> built, encoder_config |-> cfg, raised |-> "",
          calls |-> <<Invoke("build_from_corpus", ClassObj(SubwordTextEncoder),
                             corpus_generator, cfg.vocab_size)>>]

\* maybe_build_from_corpus without the test of the configured class
maybe_build_from_corpus_NoClassTest(enc, cfg, corpus_generator, built) ==
  LET set == encoder_setter(enc, cfg, built)
  IN [encoder |-> set.encoder, encoder_config |-> set.encoder_config,
      raised |-> set.raised,
      calls |-> <<Invoke("build_from_corpus", ClassObj(SubwordTextEncoder),
                         corpus_generator, cfg.vocab_size)>>]

\* maybe_build_from_corpus passing self.vocab_size as the target
maybe_build_from_corpus_EncoderVocab(enc, cfg, corpus_generator, built) ==
  IF encoder_cls_of(cfg) # SubwordTextEncoder
    THEN [encoder |-> enc, encoder_config |-> cfg, raised |-> "", calls |-> <<>>]
    ELSE LET set == encoder_setter(enc, cfg, built)
         IN [encoder |-> set.encoder, encoder_config |-> set.encoder_config,
             raised |-> set.raised,
             calls |-> <<Invoke("build_from_corpus", ClassObj(SubwordTextEncoder),
                                corpus_generator, vocab_size_of(enc))>>]

\* maybe_build_from_corpus that stores the built encoder's vocab size in the
\* config
maybe_build_from_corpus_UpdatesConfig(enc, cfg, corpus_generator, built) ==
  IF encoder_cls_of(cfg) # SubwordTextEncoder
    THEN [encoder |-> enc, encoder_config |-> cfg, raised |-> "", calls |-> <<>>]
    ELSE LET set == encoder_setter(enc, cfg, built)
         IN [encoder |-> set.encoder,
             encoder_config |-> IF set.raised = ""
                                  THEN [cfg EXCEPT !.vocab_size = built.vocab_size]
                                  ELSE cfg,
             raised |-> set.raised,
             calls |-> <<Invoke("build_from_corpus", ClassObj(SubwordTextEncoder),
                                corpus_generator, cfg.vocab_size)>>]

\* Text.maybe_build_from_corpus; built is the encoder build_from_corpus returns
maybe_build_from_corpus(enc, cfg, corpus_generator, built) ==
  IF encoder_cls_of(cfg) # SubwordTextEncoder
    THEN [encoder |-> enc, encoder_config |-> cfg, raised |-> "", calls |-> <<>>]
    ELSE LET vocab_size == cfg.vocab_size
             set == encoder_setter(enc, cfg, built)
         IN [encoder |-> set.encoder, encoder_config |-> set.encoder_config,
             raised |-> set.raised,
             calls |-> <<Invoke("build_from_corpus", ClassObj(SubwordTextEncoder),
                                corpus_generator, vocab_size)>>]

----------------------------------------------------------------------------
(* The state machine: a program that makes Text instances and calls their  *)
(* methods.                                                                *)

Init ==
  /\ alive = FALSE
  /\ self_encoder = None
  /\ self_encoder_config = NoneConfig
  /\ call = NoCall
  /\ raised = ""
  /\ ret = NoRet
  /\ calls = <<>>
  /\ fs \in SUBSET InitialFiles
  /\ ncalls = 0
  /\ bound_by = ""
  /\ inst = 0
  /\ made = NoMade

\* the history of the slot after an operation op left new_content in it
BoundBy(new_content, op) == IF new_content = self_encoder THEN bound_by ELSE op

Called(op) == /\ ncalls < MaxCalls
              /\ ncalls' = ncalls + 1

\* Text(encoder, encoder_config), when the program holds no instance; a
\* failed construction leaves it without one
Construct(encoder, encoder_config) ==
  LET r == Text_init(encoder, encoder_config)
  IN /\ ~alive
     /\ Called("__init__")
     /\ call' = [NoCall EXCEPT !.op = "__init__", !.encoder = encoder,
                               !.encoder_config = encoder_config]
     /\ alive' = (r.raised = "")
     /\ self_encoder' = r.encoder
     /\ self_encoder_config' = r.encoder_config
     /\ bound_by' = IF Truthy(r.encoder) THEN "__init__" ELSE ""
     /\ inst' = IF r.raised = "" THEN inst + 1 ELSE inst
     /\ raised' = r.raised
     /\ ret' = NoRet
     /\ calls' = <<>>
     /\ made' = IF r.raised = ""
                  THEN [encoder |-> encoder, encoder_config |-> encoder_config]
                  ELSE NoMade
     /\ UNCHANGED fs

\* the program drops its instance; the files stay
Discard ==
  /\ alive
  /\ alive' = FALSE
  /\ self_encoder' = None
  /\ self_encoder_config' = NoneConfig
  /\ call' = [NoCall EXCEPT !.op = "del"]
  /\ bound_by' = ""
  /\ raised' = ""
  /\ ret' = NoRet
  /\ calls' = <<>>
  /\ made' = NoMade
  /\ UNCHANGED <<fs, ncalls, inst>>

\* connector.encoder = new_encoder
SetEncoder(new_encoder) ==
  LET r == encoder_setter(self_encoder, self_encoder_config, new_encoder)
  IN /\ alive
     /\ Called("encoder")
     /\ call' = [NoCall EXCEPT !.op = "encoder", !.encoder = new_encoder]
     /\ self_encoder' = r.encoder
     /\ bound_by' = BoundBy(r.encoder, IF r.raised = "" THEN "encoder" ELSE "encoder (raised)")
     /\ raised' = r.raised
     /\ ret' = NoRet
     /\ calls' = <<>>
     /\ self_encoder_config' = r.encoder_config
     /\ UNCHANGED <<alive, made, inst, fs>>

VocabSize ==
  /\ alive
  /\ Called("vocab_size")
  /\ call' = [NoCall EXCEPT !.op = "vocab_size"]
  /\ raised' = ""
  /\ ret' = [NoRet EXCEPT !.kind = "int", !.seq = <<vocab_size_of(self_encoder)>>]
  /\ calls' = <<>>
  /\ UNCHANGED <<alive, made, inst, bound_by, self_encoder, self_encoder_config, fs>>

Str2Ints(str_value) ==
  LET r == str2ints(self_encoder, str_value)
  IN /\ alive
     /\ Called("str2ints")
     /\ call' = [NoCall EXCEPT !.op = "str2ints", !.data = str_value]
     /\ raised' = r.raised
     /\ ret' = r.ret
     /\ calls' = r.calls
     /\ UNCHANGED <<alive, made, inst, bound_by, self_encoder, self_encoder_config, fs>>

Ints2Str(int_values) ==
  LET r == ints2str(self_encoder, int_values)
  IN /\ alive
     /\ Called("ints2str")
     /\ call' = [NoCall EXCEPT !.op = "ints2str", !.data = int_values]
     /\ raised' = r.raised
     /\ ret' = r.ret
     /\ calls' = r.calls
     /\ UNCHANGED <<alive, made, inst, bound_by, self_encoder, self_encoder_config, fs>>

GetTensorInfo ==
  /\ alive
  /\ Called("get_tensor_info")
  /\ call' = [NoCall EXCEPT !.op = "get_tensor_info"]
  /\ raised' = ""
  /\ ret' = get_tensor_info(self_encoder)
  /\ calls' = <<>>
  /\ UNCHANGED <<alive, made, inst, bound_by, self_encoder, self_encoder_config, fs>>

EncodeExample(example_data) ==
  LET r == encode_example(self_encoder, example_data)
  IN /\ alive
     /\ Called("encode_example")
     /\ call' = [NoCall EXCEPT !.op = "encode_example", !.data = example_data]
     /\ raised' = ""
     /\ ret' = r.ret
     /\ calls' = r.calls
     /\ UNCHANGED <<alive, made, inst, bound_by, self_encoder, self_encoder_config, fs>>

DecodeExample(tfexample_data) ==
  /\ alive
  /\ Called("decode_example")
  /\ call' = [NoCall EXCEPT !.op = "decode_example", !.data = tfexample_data.seq]
  /\ raised' = ""
  /\ ret' = decode_example(self_encoder, tfexample_data)
  /\ calls' = <<>>
  /\ UNCHANGED <<alive, made, inst, bound_by, self_encoder, self_encoder_config, fs>>

SaveMetadata(data_dir, feature_name) ==
  LET r == save_metadata(self_encoder, fs, data_dir, feature_name)
  IN /\ alive
     /\ Called("save_metadata")
     /\ call' = [NoCall EXCEPT !.op = "save_metadata", !.data_dir = data_dir,
                               !.feature_name = feature_name]
     /\ raised' = ""
     /\ ret' = NoRet
     /\ calls' = r.calls
     /\ fs' = r.fs
     /\ UNCHANGED <<alive, made, inst, bound_by, self_encoder, self_encoder_config>>

LoadMetadata(data_dir, feature_name) ==
  LET r == load_metadata(self_encoder, self_encoder_config, fs, data_dir,
                         feature_name, FreshId(ncalls + 1))
  IN /\ alive
     /\ Called("load_metadata")
     /\ call' = [NoCall EXCEPT !.op = "load_metadata", !.data_dir = data_dir,
                               !.feature_name = feature_name]
     /\ self_encoder' = r.encoder
     /\ bound_by' = BoundBy(r.encoder, "load_metadata")
     /\ raised' = r.raised
     /\ ret' = NoRet
     /\ calls' = r.calls
     /\ self_encoder_config' = r.encoder_config
     /\ UNCHANGED <<alive, made, inst, fs>>

\* build_from_corpus returns a new SubwordTextEncoder whose vocabulary size
\* is near the target, not necessarily equal to it
MaybeBuildFromCorpus(corpus_generator, built_vocab_size) ==
  LET built == [id |-> FreshId(ncalls + 1), cls |-> SubwordTextEncoder,
                vocab_size |-> built_vocab_size]
      r == maybe_build_from_corpus(self_encoder, self_encoder_config,
                                   corpus_generator, built)
  IN /\ alive
     /\ Called("maybe_build_from_corpus")
     /\ call' = [NoCall EXCEPT !.op = "maybe_build_from_corpus", !.data = corpus_generator]
     /\ self_encoder' = r.encoder
     /\ bound_by' = BoundBy(r.encoder, "maybe_build_from_corpus")
     /\ raised' = r.raised
     /\ ret' = NoRet
     /\ calls' = r.calls
     /\ self_encoder_config' = r.encoder_config
     /\ UNCHANGED <<alive, made, inst, fs>>

Next ==
  \/ \E e \in UserEncoders \cup {None}, c \in UserConfigs \cup {NoneConfig} : Construct(e, c)
  \/ Discard
  \/ \E e \in UserEncoders \cup {None} : SetEncoder(e)
  \/ VocabSize
  \/ \E t \in Texts : Str2Ints(t)
  \/ \E v \in IntValues : Ints2Str(v)
  \/ GetTensorInfo
  \/ \E t \in Texts : EncodeExample(t)
  \/ \E v \in StoredValues : DecodeExample(v)
  \/ \E d \in DataDirs, n \in FeatureNames : SaveMetadata(d, n)
  \/ \E d \in DataDirs, n \in FeatureNames : LoadMetadata(d, n)
  \/ \E g \in Corpora, v \in VocabSizes : MaybeBuildFromCorpus(g, v)

Spec == Init /\ [][Next]_vars

----------------------------------------------------------------------------
(* Properties *)

\* the step is a call of the method op
Step(op) == call'.op = op /\ ncalls' = ncalls + 1

IntDescriptor == TensorInfo("(None,)", "int64")
StringDescriptor == TensorInfo("()", "string")

\* C1: a set-encoder call on an empty slot that raises leaves the slot empty
\* and the encoder config unchanged.
C1_FailedSetEncoderLeavesConnectorUnchanged ==
  [][(Step("encoder") /\ ~Truthy(self_encoder) /\ raised' # "")
       => (self_encoder' = None /\ self_encoder_config' = self_encoder_config)]_vars

\* C2 as stated: once the slot holds an encoder, every later operation on the
\* instance, load-metadata included, leaves that same encoder in the slot.
C2_BoundEncoderNeverReplaced ==
  [][(alive /\ Truthy(self_encoder) /\ alive')
       => self_encoder' = self_encoder]_vars

\* C2 as amended: once the slot holds an encoder, every later operation on the
\* instance leaves that same encoder in the slot, except a load-metadata call
\* with an encoder class configured whose load succeeds.
C2_BoundEncoderReplacedOnlyByLoad ==
  [][(alive /\ Truthy(self_encoder) /\ alive'
        /\ ~(Step("load_metadata") /\ encoder_cls_of(self_encoder_config) # "None"
               /\ raised' = ""))
       => self_encoder' = self_encoder]_vars

\* a rebinding attempt was refused on an instance whose encoder came from
\* load-metadata or maybe-build-from-corpus
C2_Witness ==
  /\ alive
  /\ call.op = "encoder"
  /\ raised = "EncoderAlreadyBound"
  /\ self_encoder.id > 1
  /\ bound_by \in {"load_metadata", "maybe_build_from_corpus"}

\* C3: an instance constructed with neither encoder nor config has an empty
\* slot, no config and the byte-string descriptor, whatever was called on it.
C3_RawModeIsPermanent ==
  (alive /\ made = NoMade)
    => /\ self_encoder = None
       /\ self_encoder_config = NoneConfig
       /\ (call.op = "get_tensor_info" => ret = StringDescriptor)

\* C4: load-metadata on an instance with no encoder class configured raises
\* OrphanedMetadataFiles whenever the listing of the data directory has a
\* name that starts with "<feature_name>.text".
C4_OrphanedFilesAreReported ==
  (alive /\ call.op = "load_metadata" /\ encoder_cls_of(self_encoder_config) = "None"
     /\ \E f \in ListDirectory(fs, call.data_dir) : startswith(f, fname_of(call.feature_name)))
    => raised = "OrphanedMetadataFiles"

\* C5: set-encoder on an empty slot with a config that names a class raises
\* EncoderTypeMismatch exactly when the new encoder's type differs from the
\* configured class, and binds the new encoder when the types are equal.
C5_ExactTypeMatch ==
  [][(Step("encoder") /\ ~Truthy(self_encoder) /\ encoder_cls_of(self_encoder_config) # "None")
       => /\ (raised' = "EncoderTypeMismatch")
               <=> (type(call'.encoder) # self_encoder_config.encoder_cls)
          /\ (type(call'.encoder) = self_encoder_config.encoder_cls
                => (raised' = "" /\ self_encoder' = call'.encoder))]_vars

\* C6: a set-encoder call on an instance whose slot was filled by a
\* successful set-encoder call raises EncoderAlreadyBound and leaves the first
\* call's encoder in the slot.
C6_SecondSetEncoderFails ==
  [][(bound_by = "encoder" /\ Step("encoder"))
       => /\ raised' = "EncoderAlreadyBound"
          /\ Truthy(self_encoder)
          /\ self_encoder' = self_encoder
          /\ bound_by' = "encoder"]_vars

C6_Witness ==
  /\ bound_by = "encoder"
  /\ call.op = "encoder"
  /\ raised = "EncoderAlreadyBound"
  /\ Truthy(self_encoder)
  /\ self_encoder # call.encoder

\* C7: construction with both an encoder and a config raises
\* DualEncoderSpecification and makes no instance; construction with at most
\* one of them does not raise it.
C7_DualSpecificationRejected ==
  call.op = "__init__"
    => IF call.encoder # None /\ call.encoder_config # NoneConfig
         THEN raised = "DualEncoderSpecification" /\ ~alive
         ELSE raised # "DualEncoderSpecification"

C7_Witness ==
  /\ call.op = "__init__"
  /\ call.encoder # None
  /\ call.encoder_config # NoneConfig
  /\ raised = "DualEncoderSpecification"

\* C8: right after construction with only an encoder E, the slot holds E and
\* the config is {class: type of E, vocab size: E.vocab_size}.
C8_ConfigDerivedFromEncoder ==
  (call.op = "__init__" /\ call.encoder # None /\ call.encoder_config = NoneConfig)
    => /\ alive
       /\ self_encoder = call.encoder
       /\ ~self_encoder_config.isNone
       /\ self_encoder_config.encoder_cls = call.encoder.cls
       /\ self_encoder_config.vocab_size = call.encoder.vocab_size

C8_Witness ==
  /\ call.op = "__init__"
  /\ call.encoder \in UserEncoders
  /\ call.encoder_config = NoneConfig
  /\ alive
  /\ self_encoder_config.vocab_size = MaxVocab

\* C9: get-tensor-descriptor returns the integer descriptor if and only if
\* the slot holds an encoder at the time of the call, and the byte-string
\* descriptor otherwise.
C9_DescriptorFollowsSlot ==
  call.op = "get_tensor_info"
    => /\ (self_encoder # None => ret = IntDescriptor)
       /\ (self_encoder = None => ret = StringDescriptor)

\* the descriptor was read after an encoder was bound to an instance
\* constructed without one
C9_Witness ==
  /\ call.op = "get_tensor_info"
  /\ ret = IntDescriptor
  /\ bound_by \in {"encoder", "load_metadata", "maybe_build_from_corpus"}
  /\ made.encoder = None
  /\ made.encoder_config.encoder = None

\* C10: maybe-build-from-corpus on an instance whose configured class is
\* SubwordTextEncoder and whose slot is occupied raises EncoderAlreadyBound and
\* leaves the bound encoder in place.
C10_BuildOnBoundSlotFails ==
  [][(Step("maybe_build_from_corpus") /\ Truthy(self_encoder)
        /\ encoder_cls_of(self_encoder_config) = SubwordTextEncoder)
       => (raised' = "EncoderAlreadyBound" /\ self_encoder' = self_encoder)]_vars

\* the instance was constructed with a live SubwordTextEncoder and the build
\* was refused
C10_Witness ==
  /\ call.op = "maybe_build_from_corpus"
  /\ raised = "EncoderAlreadyBound"
  /\ made.encoder # None
  /\ self_encoder = made.encoder
  /\ type(self_encoder) = SubwordTextEncoder
  /\ calls # <<>>

\* C11: maybe-build-from-corpus on an instance whose configured class is not
\* SubwordTextEncoder (no config, no class, another class, a subclass) does
\* not invoke build_from_corpus, raises nothing and leaves the slot and the
\* config unchanged.
C11_BuildIsNoOpForOtherClasses ==
  [][(Step("maybe_build_from_corpus")
        /\ encoder_cls_of(self_encoder_config) # SubwordTextEncoder)
       => /\ calls' = <<>>
          /\ raised' = ""
          /\ self_encoder' = self_encoder
          /\ self_encoder_config' = self_encoder_config]_vars

\* the call returned without building on an instance configured with a
\* subclass of SubwordTextEncoder and an empty slot
C11_Witness ==
  /\ alive
  /\ call.op = "maybe_build_from_corpus"
  /\ encoder_cls_of(self_encoder_config) = "SubSubwordTextEncoder"
  /\ self_encoder = None
  /\ calls = <<>>

\* C12: maybe-build-from-corpus on an instance whose configured class is
\* SubwordTextEncoder and whose slot is empty invokes build_from_corpus once,
\* with the corpus generator and the config's vocab size as target, and
\* leaves the encoder that routine made in the slot.
C12_BuildBindsBuiltEncoder ==
  [][(Step("maybe_build_from_corpus") /\ ~Truthy(self_encoder)
        /\ encoder_cls_of(self_encoder_config) = SubwordTextEncoder)
       => /\ calls' = <<Invoke("build_from_corpus", ClassObj(SubwordTextEncoder),
                               call'.data, self_encoder_config.vocab_size)>>
          /\ raised' = ""
          /\ \E v \in VocabSizes :
               self_encoder' = [id |-> FreshId(ncalls'), cls |-> SubwordTextEncoder,
                                vocab_size |-> v]]_vars

\* the build filled the slot of an instance constructed from a config alone
C12_Witness ==
  /\ alive
  /\ call.op = "maybe_build_from_corpus"
  /\ raised = ""
  /\ bound_by = "maybe_build_from_corpus"
  /\ made.encoder = None
  /\ Len(calls) = 1
  /\ calls[1].num = made.encoder_config.vocab_size

PrefixOf(c) == os_path_join(c.data_dir, fname_of(c.feature_name))

\* C14: save-metadata on a bound instance writes through save_to_file at the
\* prefix data_dir joined with feature_name + ".text"; load-metadata with the
\* same arguments on an instance with a class configured, once such a file
\* is saved, reads through load_from_file at that same prefix and leaves the
\* encoder it returns in the slot, whether the slot was empty or not.
C14_MetadataRoundTrip ==
  [][/\ (Step("save_metadata") /\ Truthy(self_encoder))
          => /\ calls' = <<Invoke("save_to_file", self_encoder, PrefixOf(call'), 0)>>
             /\ CanLoad(fs', PrefixOf(call'))
     /\ (Step("load_metadata") /\ encoder_cls_of(self_encoder_config) # "None"
           /\ CanLoad(fs, PrefixOf(call')))
          => /\ calls' = <<Invoke("load_from_file",
                                  ClassObj(encoder_cls_of(self_encoder_config)),
                                  PrefixOf(call'), 0)>>
             /\ raised' = ""
             /\ self_encoder' = load_from_file(fs, encoder_cls_of(self_encoder_config),
                                               PrefixOf(call'), FreshId(ncalls'))]_vars

\* the second instance, made from a config alone at the third call at the
\* earliest, loaded at the fourth call: the file it read was saved by the
\* first instance
C14_Witness ==
  /\ alive
  /\ inst = 2
  /\ ncalls = 4
  /\ call.op = "load_metadata"
  /\ raised = ""
  /\ bound_by = "load_metadata"
  /\ made.encoder = None
  /\ made.encoder_config.encoder = None
  /\ self_encoder.vocab_size = MaxVocab

\* C15: save-metadata never changes the slot or the config and raises
\* nothing; on an empty slot it invokes nothing and leaves the files as they
\* were; on a bound slot it invokes the bound encoder's save_to_file exactly
\* once, with the prefix data_dir joined with feature_name + ".text".
C15_SaveWritesOnlyWhenBound ==
  [][Step("save_metadata")
       => /\ self_encoder' = self_encoder
          /\ self_encoder_config' = self_encoder_config
          /\ raised' = ""
          /\ IF Truthy(self_encoder)
               THEN /\ Len(calls') = 1
                    /\ calls'[1].fn = "save_to_file"
                    /\ calls'[1].obj = self_encoder
                    /\ calls'[1].str =
                         os_path_join(call'.data_dir, call'.feature_name \o DotText)
               ELSE calls' = <<>> /\ fs' = fs]_vars

\* save-metadata was called on an instance with a class configured and an
\* empty slot, and the only file on disk is one that was there before
C15_Witness ==
  /\ alive
  /\ call.op = "save_metadata"
  /\ self_encoder = None
  /\ encoder_cls_of(self_encoder_config) # "None"
  /\ calls = <<>>
  /\ fs = InitialFiles

\* C16: decode-example returns the stored value it is given, of the same
\* kind and content, with or without an encoder bound, and invokes nothing;
\* encode-example on an empty slot returns the UTF-8 bytes of the text (for
\* the text U+00E9 U+0061 the bytes C3 A9 61).
C16_DecodeExampleIsPassThrough ==
  /\ call.op = "decode_example"
       => /\ ret \in StoredValues
          /\ ret.seq = call.data
          /\ calls = <<>>
          /\ raised = ""
  /\ (call.op = "encode_example" /\ self_encoder = None)
       => /\ ret = Bytes(as_bytes(call.data))
          /\ (call.data = <<233, 97>> => ret.seq = <<195, 169, 97>>)
          /\ calls = <<>>

\* decode-example was given the bytes encode-example makes of a non-ASCII
\* text on an empty slot, and returned those bytes, not the text
C16_Witness ==
  /\ alive
  /\ call.op = "decode_example"
  /\ self_encoder = None
  /\ ret = Bytes(as_bytes(<<233, 97>>))
  /\ ret.seq # <<233, 97>>

\* C17: no operation on an instance changes its encoder config: presence,
\* class and vocab size stay as construction left them, whether the operation
\* succeeds or raises and whatever vocab size the bound encoder reports.
C17_ConfigIsImmutable ==
  [][(alive /\ alive') => self_encoder_config' = self_encoder_config]_vars

\* an encoder made by build_from_corpus or load_from_file is bound and
\* reports a vocab size other than the config's
C17_Witness ==
  /\ alive
  /\ bound_by \in {"maybe_build_from_corpus", "load_metadata"}
  /\ ~self_encoder_config.isNone
  /\ self_encoder_config.vocab_size \in VocabSizes
  /\ self_encoder.vocab_size # self_encoder_config.vocab_size

\* the instance has a config and an empty slot
NotYetSet == alive /\ self_encoder = None /\ ~self_encoder_config.isNone

\* C18: construction from a config alone puts the encoder the config carries
\* in the slot (none, if it carries none) and keeps the config; on an
\* instance with a config and an empty slot, set-encoder with an encoder of
\* the configured class, load-metadata of a saved file with a class
\* configured, and maybe-build-from-corpus with SubwordTextEncoder configured
\* each succeed and fill the slot.
C18_ConfigOnlyConstruction ==
  [][/\ (Step("__init__") /\ call'.encoder = None /\ call'.encoder_config # NoneConfig)
          => /\ alive'
             /\ raised' = ""
             /\ self_encoder' = call'.encoder_config.encoder
             /\ self_encoder_config' = call'.encoder_config
     /\ (NotYetSet /\ Step("encoder")
           /\ type(call'.encoder) = self_encoder_config.encoder_cls)
          => (raised' = "" /\ self_encoder' = call'.encoder /\ Truthy(self_encoder'))
     /\ (NotYetSet /\ Step("load_metadata")
           /\ encoder_cls_of(self_encoder_config) # "None"
           /\ CanLoad(fs, PrefixOf(call')))
          => (raised' = "" /\ Truthy(self_encoder'))
     /\ (NotYetSet /\ Step("maybe_build_from_corpus")
           /\ encoder_cls_of(self_encoder_config) = SubwordTextEncoder)
          => (raised' = "" /\ Truthy(self_encoder'))]_vars

\* an instance was constructed from a config that carries an encoder, and
\* holds that encoder
C18_Witness ==
  /\ alive
  /\ call.op = "__init__"
  /\ call.encoder = None
  /\ call.encoder_config.encoder \in UserEncoders
  /\ self_encoder = call.encoder_config.encoder
  /\ self_encoder_config = call.encoder_config

\* C19: no operation on an instance whose slot holds an encoder leaves the
\* slot empty; on such an instance get-tensor-descriptor returns the integer
\* descriptor and str-to-ints / ints-to-str do not raise EncoderNotConfigured.
C19_BindingIsMonotonic ==
  [][(alive /\ Truthy(self_encoder) /\ alive')
       => /\ Truthy(self_encoder')
          /\ (Step("get_tensor_info") => ret' = IntDescriptor)
          /\ ((Step("str2ints") \/ Step("ints2str")) => raised' # "EncoderNotConfigured")]_vars

\* a load that failed, or a set-encoder of None, left the bound encoder in
\* the slot
C19_Witness ==
  /\ alive
  /\ Truthy(self_encoder)
  /\ \/ (call.op = "load_metadata" /\ raised = "IOError")
     \/ (call.op = "encoder" /\ call.encoder = None /\ raised = "EncoderAlreadyBound")

\* C20: in the state an encode-example call leaves, its result is an integer
\* sequence (the bound encoder's encoding of the text) exactly when
\* get-tensor-descriptor reports the variable-length int64 descriptor, and a
\* byte string exactly when it reports the scalar string descriptor.
C20_EncodingAgreesWithDescriptor ==
  call.op = "encode_example"
    => /\ ret.kind \in {"ints", "bytes"}
       /\ (ret.kind = "ints") <=> (get_tensor_info(self_encoder) = IntDescriptor)
       /\ (ret.kind = "bytes") <=> (get_tensor_info(self_encoder) = StringDescriptor)
       /\ (ret.kind = "ints" => ret.seq = encode(self_encoder, call.data))

\* encode-example returned integers on an instance whose encoder was bound
\* after construction
C20_Witness ==
  /\ alive
  /\ call.op = "encode_example"
  /\ ret.kind = "ints"
  /\ Len(ret.seq) = 2
  /\ bound_by # "__init__"

====
